---- MODULE Spec2Model ----
(***************************************************************************)
(* js-mcp: the background task supervisor (background.ts, the tools of     *)
(* tools/background.ts, the shutdown cleanup of server.ts), the foreground *)
(* command executor (utils.ts), and run-script (tools/script.ts) with the  *)
(* background auto-detection it consults.                                  *)
(*                                                                         *)
(* Text is a sequence of tokens: "x" is a visible character, " " a blank,  *)
(* "\n" a line feed; the fixed texts the code writes ("[STDERR] ", the     *)
(* timeout notice, ...) are one token each.  A line is a text without      *)
(* "\n"; an output buffer is a sequence of lines.                          *)
(*                                                                         *)
(* The child process is node's ChildProcess: kill(sig) delivers sig and    *)
(* sets `killed` while the handle is open, and is a no-op returning false  *)
(* once the exit event was emitted or the spawn failed; `killed` only says *)
(* that a signal was delivered, never that the process is gone.            *)
(***************************************************************************)
EXTENDS Integers, Sequences, FiniteSets, TLC

\* ------------------------------------------------------------------ bounds
MaxData == 1        \* data events delivered to background tasks over a run
MaxExecData == 2    \* data events delivered to a foreground command over a run
MaxCleanup == 1     \* runs of the shutdown cleanup
MaxTime == 2        \* ticks of the clock over a run
MaxStream == 4      \* data events of a task that does nothing but write
MaxShutdown == 2    \* runs of the shutdown cleanup while tasks are running

\* --------------------------------------------------------- program constants
MaxOutputLines == 100

TaskOrder == <<"t1", "t2", "t3">>  \* the ids executeBackgroundCommand generates, in order
TaskIds == {TaskOrder[i] : i \in 1..Len(TaskOrder)}
GhostId == "ghost"           \* an id no task ever gets
NullCode == 0 - 1            \* exit code null (the child died of a signal)
ExitCodes == {0, 1, NullCode}
None == [kind |-> "none"]                                  \* no value yet
NoResponse == [op |-> "none", kind |-> "none", taskId |-> "none"]

VARIABLES
  backgroundTasks,  \* the registry: task id -> [status, output]
  child,            \* task id -> the ChildProcess of the task
  sent,             \* task id -> the signals delivered to the child, in order
  escalation,       \* task id -> the 5 s timer of a graceful stop
  startup,          \* task id -> executeBackgroundCommand's initialOutput and
                    \* hasOutput, its 3 s timer and the promise it returned
  response,         \* what the step returns to its caller: none for an event or a timer
  now,              \* Date.now(), in ticks of the clock
  arrived,          \* history: task id -> the lines its data handlers appended, in
                    \* order of arrival, each with the stream it came from
  script,           \* the run-script call: its arguments and where it sent the script
  budget,           \* what the environment may still do: tasks to start,
                    \* commands to execute, data events to deliver, cleanup runs
  exChild,          \* executeCommand: the ChildProcess
  exSent,           \* executeCommand: the signals delivered to the child
  stdout,           \* executeCommand: let stdout
  stderr,           \* executeCommand: let stderr
  resolved,         \* executeCommand: let resolved
  timeoutHandle,    \* executeCommand: the timer of timeoutMs
  killTimer,        \* executeCommand: the 5 s timer set when the command times out
  promise,          \* executeCommand: the returned promise, and the calls of resolve
  settledBy         \* executeCommand: the event whose handler resolved the promise

exVars == <<exChild, exSent, stdout, stderr, resolved, timeoutHandle, killTimer, promise, settledBy>>
supervisorVars == <<backgroundTasks, child, sent, escalation, startup, response, now, arrived>>
vars == <<supervisorVars, script, budget, exVars>>

\* -------------------------------------------------------------------- text
IsWs(tok) == tok \in {" ", "\n"}

\* String.prototype.trim: from the first to the last token that is not
\* white space
Trim(s) ==
  LET solid == {i \in 1..Len(s) : ~IsWs(s[i])}
  IN IF solid = {} THEN <<>>
     ELSE SubSeq(s, CHOOSE i \in solid : \A j \in solid : i <= j,
                    CHOOSE i \in solid : \A j \in solid : j <= i)

\* the pieces of a \o b from the pieces of a and of b: the last piece of a
\* and the first of b are one piece
JoinPieces(a, b) ==
  SubSeq(a, 1, Len(a) - 1) \o <<a[Len(a)] \o b[1]>> \o SubSeq(b, 2, Len(b))

\* data.split('\n'): the pieces between the line feeds, empty ones included
RECURSIVE Split(_)
Split(s) ==
  IF Len(s) = 0 THEN << <<>> >>
  ELSE IF Len(s) = 1 THEN (IF s[1] = "\n" THEN << <<>>, <<>> >> ELSE <<s>>)
  ELSE LET half == Len(s) \div 2
       IN JoinPieces(Split(SubSeq(s, 1, half)), Split(SubSeq(s, half + 1, Len(s))))

\* .filter(line => line.trim())
NonBlank(ls) == SelectSeq(ls, LAMBDA l : Trim(l) # <<>>)

\* Array.prototype.slice(start) for any integer start
SliceFrom(a, start) ==
  LET n == Len(a)
      from == IF start < 0 THEN (IF n + start < 0 THEN 0 ELSE n + start)
              ELSE (IF start > n THEN n ELSE start)
  IN SubSeq(a, from + 1, n)

Min(a, b) == IF a < b THEN a ELSE b

\* ------------------------------------------------------------ the promise
Pending == [value |-> None, calls |-> 0]

\* a promise that takes the value of every call of resolve
ResolveLast(p, result) == [value |-> result, calls |-> p.calls + 1]

\* resolve(result) of the promise: the first value stays
Resolve(p, result) ==
  [value |-> IF p.value = None THEN result ELSE p.value, calls |-> p.calls + 1]

\* ------------------------------------------------------- the child process
NoChild == [phase |-> "none", killed |-> FALSE, errored |-> FALSE]

\* the handle is open from spawn() until the exit event or the spawn failure
HandleOpen(c) == c.phase \in {"spawning", "alive"}

\* ChildProcess.kill: the process object after the call
Kill(c) == IF HandleOpen(c) THEN [c EXCEPT !.killed = TRUE] ELSE c

\* ChildProcess.kill: the signals delivered after the call
Deliver(c, sigs, sig) == IF HandleOpen(c) THEN Append(sigs, sig) ELSE sigs

\* spawn() queues the spawn event, or the error event of a failed spawn, on
\* the next tick: nothing else runs before it
Settled == \A t \in TaskIds : child[t].phase # "spawning"

Registered == DOMAIN backgroundTasks

\* the ids a caller passes to a tool: one it was given, or one no task has
Nameable(taskId) == taskId \in Registered \cup {GhostId}

\* template literals: `${code}`
CodeText(code) == IF code = NullCode THEN "null" ELSE ToString(code)

ProcessLine(code) == <<"[PROCESS] Process exited with code ", CodeText(code)>>
ErrorLine(msg) == <<"[ERROR] ", msg>>
StopLine(signal) == <<"[SYSTEM] Process terminated with ", signal, " after ", "<runtime>", "s">>
ForceKillLine == <<"[SYSTEM] Process force-killed with SIGKILL">>
ShutdownLine == <<"[SYSTEM] Process terminated on server shutdown">>

\* chunks a stream can deliver: a full window of lines at once, and two
\* lines with a blank one between them
FullChunk == [i \in 1..(2 * MaxOutputLines) |-> IF i % 2 = 1 THEN "x" ELSE "\n"]
ShortChunk == <<"x", "\n", " ", "\n", "x", "x">>
Chunks == {FullChunk, ShortChunk}
Streams == {"stdout", "stderr"}
\* the data events of a run: either chunk on stdout, the short one on stderr
DataEvents == {<<"stdout", FullChunk>>, <<"stdout", ShortChunk>>, <<"stderr", ShortChunk>>}
DefaultLines == 50           \* the default of the lines argument
LinesArgs == {0 - 1, 0, DefaultLines, 200}
SpawnErrors == {"spawn ENOENT"}      \* error.message of a failed spawn
LaterErrors == {"kill EPERM"}        \* error.message of an error event after the spawn
ErrorMessages == SpawnErrors \cup LaterErrors

\* what the data handler of a stream hands to addToOutput
DataText(stream, chunk) == IF stream = "stderr" THEN <<"[STDERR] ">> \o chunk ELSE chunk

\* every text a handler hands to addToOutput
Texts ==
  {DataText(stream, chunk) : stream \in Streams, chunk \in Chunks}
    \cup {ProcessLine(code) : code \in ExitCodes}
    \cup {ErrorLine(msg) : msg \in ErrorMessages}

\* data.split('\n').filter(line => line.trim()), computed once for each text
LinesOf == [data \in Texts |-> NonBlank(Split(data))]

\* ------------------------------------------------------------ addToOutput
\* a window that keeps the first 100 lines
AddToOutputKeepingFirst(output, data) ==
  LET pushed == output \o LinesOf[data]
  IN IF Len(pushed) > MaxOutputLines THEN SubSeq(pushed, 1, MaxOutputLines)
     ELSE pushed

AddToOutput(output, data) ==
  LET pushed == output \o LinesOf[data]
  IN IF Len(pushed) > MaxOutputLines THEN SliceFrom(pushed, 0 - MaxOutputLines)
     ELSE pushed

\* ------------------------------------------------ executeBackgroundCommand
NoStartup == [initialOutput |-> <<>>, hasOutput |-> FALSE, ack |-> "none", promise |-> Pending]

\* a summary that does not name the task
AckResultWithoutTaskId(taskId, initialOutput) ==
  [stdout |-> <<"Background task started successfully!", "\n", "\n",
                "Working Directory: ", "<cwd>", "\n",
                "Command: ", "<command> <args>", "\n", "\n", "Initial Output:", "\n">>
              \o initialOutput,
   stderr |-> <<>>,
   success |-> TRUE]

\* what the 3 s timer resolves the promise with
AckResult(taskId, initialOutput) ==
  [stdout |-> <<"Background task started successfully!", "\n", "\n",
                "Task ID: ", taskId, "\n", "Working Directory: ", "<cwd>", "\n",
                "Command: ", "<command> <args>", "\n", "\n", "Initial Output:", "\n">>
              \o initialOutput \o <<"\n", "\n", "Use 'stop-background-task' ...">>,
   stderr |-> <<>>,
   success |-> TRUE]

\* what the error handler resolves the promise with
StartFailure(msg) ==
  [stdout |-> <<>>, stderr |-> <<"Failed to start background process: ", msg>>,
   success |-> FALSE]

\* a set that forgets the other entries
MapSetAlone(map, key, value) == [i \in {key} |-> value]

\* Map.prototype.set
MapSet(map, key, value) ==
  [i \in DOMAIN map \cup {key} |-> IF i = key THEN value ELSE map[i]]

\* a task record that is not running yet
NewTaskPending(taskId, startTime) ==
  [id |-> taskId, command |-> "<command> <args> <cwd>", status |-> "pending",
   output |-> <<>>, startTime |-> startTime]

\* the task record: command stands for command, args and cwd
NewTask(taskId, startTime) ==
  [id |-> taskId, command |-> "<command> <args> <cwd>", status |-> "running",
   output |-> <<>>, startTime |-> startTime]

\* executeBackgroundCommand(command, args, cwd): spawn and register the task
ExecuteBackgroundCommand(t) ==
  /\ Settled
  /\ budget.starts > 0
  /\ t = TaskOrder[Cardinality(Registered) + 1]
  /\ budget' = [budget EXCEPT !.starts = @ - 1]
  /\ backgroundTasks' = MapSet(backgroundTasks, t, NewTask(t, now))
  /\ child' = [child EXCEPT ![t] = [phase |-> "spawning", killed |-> FALSE, errored |-> FALSE]]
  /\ startup' = [startup EXCEPT ![t] = NoStartup]
  /\ UNCHANGED <<sent, escalation>>
  /\ response' = NoResponse
  /\ UNCHANGED <<now, arrived, exVars>>

\* a tool starts a background task
Start(t) == ExecuteBackgroundCommand(t) /\ UNCHANGED script

\* child.on('spawn')
Spawn(t) ==
  /\ child[t].phase = "spawning"
  /\ child' = [child EXCEPT ![t].phase = "alive"]
  /\ startup' = [startup EXCEPT ![t].ack = "armed"]
  /\ UNCHANGED <<backgroundTasks, sent, escalation, budget>>
  /\ response' = NoResponse
  /\ UNCHANGED <<now, arrived, script, exVars>>

\* a timer callback that reports a task that is no longer running as a failure
AckFiresForRunning(t) ==
  /\ Settled
  /\ startup[t].ack = "armed"
  /\ startup' = [startup EXCEPT
        ![t].ack = "fired",
        ![t].promise = Resolve(@, IF backgroundTasks[t].status = "running"
                                  THEN AckResult(t, startup[t].initialOutput)
                                  ELSE StartFailure("exited"))]
  /\ UNCHANGED <<backgroundTasks, child, sent, escalation, budget>>
  /\ response' = NoResponse
  /\ UNCHANGED <<now, arrived, script, exVars>>

\* the callback of collectInitialOutput's setTimeout(..., 3000)
AckFires(t) ==
  /\ Settled
  /\ startup[t].ack = "armed"
  /\ startup' = [startup EXCEPT
        ![t].ack = "fired",
        ![t].promise = Resolve(@, AckResult(t, startup[t].initialOutput))]
  /\ UNCHANGED <<backgroundTasks, child, sent, escalation, budget>>
  /\ response' = NoResponse
  /\ UNCHANGED <<now, arrived, script, exVars>>

\* an error handler that only records the message
OnErrorKeepingStatus(task, msg) ==
  [task EXCEPT !.output = AddToOutput(task.output, ErrorLine(msg))]

\* the handler of child.on('error')
OnError(task, msg) ==
  [task EXCEPT !.status = "failed", !.output = AddToOutput(task.output, ErrorLine(msg))]

\* child.on('error') of a spawn that failed: no process, no handle
SpawnError(t, msg) ==
  /\ child[t].phase = "spawning"
  /\ child' = [child EXCEPT ![t].phase = "failed", ![t].errored = TRUE]
  /\ backgroundTasks' = [backgroundTasks EXCEPT ![t] = OnError(@, msg)]
  /\ startup' = [startup EXCEPT ![t].promise = Resolve(@, StartFailure(msg))]
  /\ UNCHANGED <<sent, escalation, budget>>
  /\ response' = NoResponse
  /\ UNCHANGED <<now, arrived, script, exVars>>

\* child.on('error') after the spawn: the process goes on
Error(t, msg) ==
  /\ Settled
  /\ child[t].phase = "alive"
  /\ ~child[t].errored
  /\ child' = [child EXCEPT ![t].errored = TRUE]
  /\ backgroundTasks' = [backgroundTasks EXCEPT ![t] = OnError(@, msg)]
  /\ startup' = [startup EXCEPT ![t].promise = Resolve(@, StartFailure(msg))]
  /\ UNCHANGED <<sent, escalation, budget>>
  /\ response' = NoResponse
  /\ UNCHANGED <<now, arrived, script, exVars>>

\* a data handler without the hasOutput test
InitialOutputOfEveryChunk(st, chunk) ==
  [st EXCEPT !.initialOutput = @ \o chunk, !.hasOutput = TRUE]

\* if (!hasOutput) { initialOutput += output; hasOutput = true; }
InitialOutput(st, chunk) ==
  IF st.hasOutput THEN st
  ELSE [st EXCEPT !.initialOutput = @ \o chunk, !.hasOutput = TRUE]

\* child.stdout.on('data') and child.stderr.on('data')
Data(t, stream, chunk) ==
  /\ Settled
  /\ child[t].phase \in {"alive", "exited"}
  /\ budget.data > 0
  /\ budget' = [budget EXCEPT !.data = @ - 1]
  /\ backgroundTasks' = [backgroundTasks EXCEPT
        ![t].output = AddToOutput(@, DataText(stream, chunk))]
  /\ startup' = [startup EXCEPT ![t] = InitialOutput(@, chunk)]
  /\ arrived' = [arrived EXCEPT ![t] = @ \o
        [i \in 1..Len(LinesOf[DataText(stream, chunk)]) |->
           [stream |-> stream, line |-> LinesOf[DataText(stream, chunk)][i]]]]
  /\ UNCHANGED <<child, sent, escalation>>
  /\ response' = NoResponse
  /\ UNCHANGED <<now, script, exVars>>

\* an exit handler that leaves the status of a stopped task
OnExitUnlessStopped(task, code) ==
  [task EXCEPT !.status = IF task.status = "stopped" \/ code = 0 THEN "stopped" ELSE "failed",
               !.output = AddToOutput(task.output, ProcessLine(code))]

\* the handler of child.on('exit')
OnExit(task, code) ==
  [task EXCEPT !.status = IF code = 0 THEN "stopped" ELSE "failed",
               !.output = AddToOutput(task.output, ProcessLine(code))]

\* exit handlers that share one task variable: every record takes the exit
ExitOnSharedTask(t, code) ==
  /\ Settled
  /\ child[t].phase = "alive"
  /\ child' = [child EXCEPT ![t].phase = "exited"]
  /\ backgroundTasks' = [u \in Registered |-> OnExit(backgroundTasks[u], code)]
  /\ UNCHANGED <<sent, escalation, startup, budget>>
  /\ response' = NoResponse
  /\ UNCHANGED <<now, arrived, script, exVars>>

\* child.on('exit')
Exit(t, code) ==
  /\ Settled
  /\ child[t].phase = "alive"
  /\ child' = [child EXCEPT ![t].phase = "exited"]
  /\ backgroundTasks' = [backgroundTasks EXCEPT ![t] = OnExit(@, code)]
  /\ UNCHANGED <<sent, escalation, startup, budget>>
  /\ response' = NoResponse
  /\ UNCHANGED <<now, arrived, script, exVars>>

\* ---------------------------------------------------- stop-background-task
\* a not-found result listing the running tasks only
NotFoundListingRunning(op, taskId) ==
  [op |-> op, kind |-> "NotFound", taskId |-> taskId,
   ids |-> {t \in Registered : backgroundTasks[t].status = "running"}]

\* the not-found result: Array.from(backgroundTasks.keys())
NotFound(op, taskId) ==
  [op |-> op, kind |-> "NotFound", taskId |-> taskId, ids |-> Registered]

\* a stop refused for failed tasks only
IsRunningUnlessFailed(task) == task.status # "failed"

\* task.status !== 'running' refuses the stop
IsRunning(task) == task.status = "running"

\* the test of the callback of the 5 s timer of a graceful stop
EscalationBody(task, c) == task.status = "stopped" /\ ~c.killed

StopSignal(force) == IF force THEN "SIGKILL" ELSE "SIGTERM"

StopBackgroundTask(taskId, force) ==
  /\ Settled
  /\ Nameable(taskId)
  /\ UNCHANGED startup
  /\ IF taskId \notin Registered
     THEN /\ response' = NotFound("stop", taskId)
          /\ UNCHANGED <<backgroundTasks, child, sent, escalation>>
     ELSE IF ~IsRunning(backgroundTasks[taskId])
     THEN /\ response' = [op |-> "stop", kind |-> "AlreadyTerminal", taskId |-> taskId,
                            status |-> backgroundTasks[taskId].status]
          /\ UNCHANGED <<backgroundTasks, child, sent, escalation>>
     ELSE LET signal == StopSignal(force) IN
          /\ child' = [child EXCEPT ![taskId] = Kill(@)]
          /\ sent' = [sent EXCEPT ![taskId] = Deliver(child[taskId], @, signal)]
          /\ backgroundTasks' = [backgroundTasks EXCEPT
                ![taskId].status = "stopped",
                ![taskId].output = Append(@, StopLine(signal))]
          /\ escalation' = IF force THEN escalation
                           ELSE [escalation EXCEPT ![taskId] = "armed"]
          /\ response' = [op |-> "stop", kind |-> "Stopped", taskId |-> taskId,
                            signal |-> signal]
  /\ UNCHANGED <<budget>>
  /\ UNCHANGED <<now, arrived, script, exVars>>

\* error.message of a kill that throws
KillErrors == {"kill EINVAL"}

\* a task whose status is set before the kill
KillThrewAfterStatus(task) == [task EXCEPT !.status = "stopped"]

\* the task after a kill that throws: the catch is entered from the kill,
\* the assignment of the status and the push are skipped
KillThrew(task) == task

\* the result of the inner catch
StopFailure(taskId, message) ==
  [op |-> "stop", kind |-> "StopFailed", taskId |-> taskId, message |-> message,
   hint |-> "force: true"]

\* stop-background-task on a running task, when process.kill throws
StopBackgroundTaskKillThrows(taskId, force, message) ==
  /\ Settled
  /\ taskId \in Registered
  /\ IsRunning(backgroundTasks[taskId])
  /\ StopSignal(force) \in {"SIGKILL", "SIGTERM"}
  /\ backgroundTasks' = [backgroundTasks EXCEPT ![taskId] = KillThrew(@)]
  /\ response' = StopFailure(taskId, message)
  /\ UNCHANGED <<child, sent, escalation, startup, budget>>
  /\ UNCHANGED <<now, arrived, script, exVars>>

\* the callback of the setTimeout(..., 5000) of a graceful stop
EscalationFires(t) ==
  /\ Settled
  /\ escalation[t] = "armed"
  /\ escalation' = [escalation EXCEPT ![t] = "fired"]
  /\ IF EscalationBody(backgroundTasks[t], child[t])
     THEN /\ child' = [child EXCEPT ![t] = Kill(@)]
          /\ sent' = [sent EXCEPT ![t] = Deliver(child[t], @, "SIGKILL")]
          /\ backgroundTasks' = [backgroundTasks EXCEPT
                ![t].output = Append(@, ForceKillLine)]
     ELSE UNCHANGED <<backgroundTasks, child, sent>>
  /\ UNCHANGED <<startup, budget>>
  /\ response' = NoResponse
  /\ UNCHANGED <<now, arrived, script, exVars>>

\* --------------------------------------------------- get-background-output
RecentOutput(output, lines) == SliceFrom(output, 0 - Min(lines, MaxOutputLines))

GetBackgroundOutput(taskId, lines) ==
  /\ Settled
  /\ Nameable(taskId)
  /\ response' =
       IF taskId \notin Registered THEN NotFound("get", taskId)
       ELSE [op |-> "get", kind |-> "Output", taskId |-> taskId, asked |-> lines,
             status |-> backgroundTasks[taskId].status,
             lines |-> RecentOutput(backgroundTasks[taskId].output, lines)]
  /\ UNCHANGED <<backgroundTasks, child, sent, escalation, startup, budget>>
  /\ UNCHANGED <<now, arrived, script, exVars>>

\* ---------------------------------------------------- list-background-tasks
\* Array.from(backgroundTasks.values()): the ids in insertion order
Values == [i \in 1..Cardinality(Registered) |-> TaskOrder[i]]

\* a comparator that puts the earliest start first
ByStartTimeAscending(a, b) == backgroundTasks[a].startTime - backgroundTasks[b].startTime

\* the comparator of the sort: b.startTime.getTime() - a.startTime.getTime()
ByStartTime(a, b) == backgroundTasks[b].startTime - backgroundTasks[a].startTime

\* one step of the stable sort: x, which came after every element of sorted,
\* goes behind the elements that do not compare greater than it
Insert(sorted, x) ==
  LET k == Cardinality({i \in 1..Len(sorted) : ByStartTime(sorted[i], x) <= 0})
  IN SubSeq(sorted, 1, k) \o <<x>> \o SubSeq(sorted, k + 1, Len(sorted))

\* Array.prototype.sort with the comparator
RECURSIVE Sort(_)
Sort(ids) ==
  IF Len(ids) = 0 THEN <<>>
  ELSE Insert(Sort(SubSeq(ids, 1, Len(ids) - 1)), ids[Len(ids)])

\* what the listing shows of a task
Entry(id) ==
  [id |-> id, status |-> backgroundTasks[id].status,
   startTime |-> backgroundTasks[id].startTime,
   outputLines |-> Len(backgroundTasks[id].output)]

ListBackgroundTasks ==
  /\ Settled
  /\ response' =
       IF Cardinality(Registered) = 0
       THEN [op |-> "list", kind |-> "Empty", taskId |-> "none", tasks |-> <<>>]
       ELSE LET sortedTasks == Sort(Values) IN
            [op |-> "list", kind |-> "Tasks", taskId |-> "none",
             tasks |-> [i \in 1..Len(sortedTasks) |-> Entry(sortedTasks[i])]]
  /\ UNCHANGED <<backgroundTasks, child, sent, escalation, startup, budget>>
  /\ UNCHANGED <<now, arrived, script, exVars>>

\* the clock advances by a tick
Tick ==
  /\ Settled
  /\ now < MaxTime
  /\ now' = now + 1
  /\ response' = NoResponse
  /\ UNCHANGED <<backgroundTasks, child, sent, escalation, startup, budget>>
  /\ UNCHANGED <<arrived, script, exVars>>

\* ------------------------------------------------------- server.ts cleanup
\* a cleanup that signals every task
CleanupEveryTask == Registered

CleanupTargets == {t \in Registered : backgroundTasks[t].status = "running"}

\* the place of a task in the order of insertion, which forEach follows
OrderOf(t) == CHOOSE i \in 1..Len(TaskOrder) : TaskOrder[i] = t

\* an iteration that ends at the first kill that throws
CleanupReachedUntilThrow(throwers) ==
  {t \in CleanupTargets : \A u \in throwers : OrderOf(t) <= OrderOf(u)}

\* the running tasks the forEach reaches when the kill of throwers throws:
\* the try is inside the callback, so all of them
CleanupReached(throwers) == CleanupTargets

\* a cleanup that marks the task as stopped
OnShutdownStopping(task) ==
  [task EXCEPT !.status = "stopped", !.output = Append(@, ShutdownLine)]

\* the statement after a kill that returned: the notice is pushed
OnShutdown(task) == [task EXCEPT !.output = Append(@, ShutdownLine)]

\* one run of cleanup, in which the kill of the tasks in throwers throws
CleanupRun(throwers) ==
  LET signalled == CleanupReached(throwers) \ throwers IN
  /\ Settled
  /\ budget.cleanups > 0
  /\ budget' = [budget EXCEPT !.cleanups = @ - 1]
  /\ child' = [t \in TaskIds |-> IF t \in signalled THEN Kill(child[t]) ELSE child[t]]
  /\ sent' = [t \in TaskIds |->
        IF t \in signalled THEN Deliver(child[t], sent[t], "SIGTERM") ELSE sent[t]]
  /\ backgroundTasks' = [t \in Registered |->
        IF t \in signalled THEN OnShutdown(backgroundTasks[t]) ELSE backgroundTasks[t]]
  /\ UNCHANGED <<escalation, startup>>
  /\ response' = NoResponse
  /\ UNCHANGED <<now, arrived, script, exVars>>

\* cleanup, every kill returning
Cleanup ==
  /\ CleanupTargets \subseteq Registered
  /\ CleanupRun({})

\* cleanup, the kill of one running task throwing
CleanupKillThrows(t) ==
  /\ t \in CleanupTargets
  /\ CleanupRun({t})

\* ----------------------------------------------------------- executeCommand
SpawnFailCode == 0 - 2       \* the exit code node reports for a failed spawn
TimeoutNotice == "<Command timed out (after N seconds)>"
ExecChunks == {<<"x">>, <<" ", "\n">>, <<"\n", "x", " ">>}

\* no event has resolved the promise; otherwise the event, its exit code or
\* error message, and stdout and stderr as they were when it came
Unsettled == [event |-> "none", code |-> NullCode, msg |-> "", stdout |-> <<>>, stderr |-> <<>>]

NoExChild == [phase |-> "none", killed |-> FALSE, errored |-> FALSE, code |-> NullCode]

\* a resolveOnce that leaves the timer pending
ClearTimeoutNever(handle) == handle

\* clearTimeout(timeoutHandle): a pending timer is cancelled
ClearTimeout(handle) == IF handle = "armed" THEN "cleared" ELSE handle

\* resolveOnce without its guard
ResolveEveryTime(result) ==
  [resolved |-> TRUE, timeoutHandle |-> ClearTimeout(timeoutHandle),
   promise |-> Resolve(promise, result)]

\* resolveOnce: resolved, timeoutHandle and the promise after the call
ResolveOnce(result) ==
  IF resolved
  THEN [resolved |-> resolved, timeoutHandle |-> timeoutHandle, promise |-> promise]
  ELSE [resolved |-> TRUE, timeoutHandle |-> ClearTimeout(timeoutHandle),
        promise |-> Resolve(promise, result)]

\* a handler calls resolveOnce(result)
Settle(result, event, code, msg) ==
  LET after == ResolveOnce(result) IN
  /\ resolved' = after.resolved
  /\ timeoutHandle' = after.timeoutHandle
  /\ promise' = after.promise
  /\ settledBy' = IF resolved THEN settledBy
                  ELSE [event |-> event, code |-> code, msg |-> msg,
                        stdout |-> stdout, stderr |-> stderr]

\* success for every code but 1: a child killed by a signal counts as a success
ExitResultUnlessOne(code) ==
  [stdout |-> Trim(stdout), stderr |-> Trim(stderr), success |-> code # 1]

\* the result the close and exit handlers build
ExitResult(code) == [stdout |-> Trim(stdout), stderr |-> Trim(stderr), success |-> code = 0]

\* an error result that keeps the stdout received so far
ErrorResultKeepingStdout(msg) == [stdout |-> Trim(stdout), stderr |-> <<msg>>, success |-> FALSE]

\* the result the error handler builds
ErrorResult(msg) == [stdout |-> <<>>, stderr |-> <<msg>>, success |-> FALSE]

\* a timeout result without the notice
TimeoutResultWithoutNotice ==
  [stdout |-> Trim(stdout), stderr |-> Trim(stderr), success |-> FALSE]

\* the result the timeout callback builds
TimeoutResult ==
  [stdout |-> Trim(stdout), stderr |-> Trim(stderr \o <<"\n", TimeoutNotice>>),
   success |-> FALSE]

ExSettled == exChild.phase # "spawning"

\* a call that sets no timer
SetTimeoutNever == "none"

\* const timeoutHandle = setTimeout(..., timeoutMs): the timer is pending
SetTimeout == "armed"

\* executeCommand(command, args, cwd, timeoutMs): spawn, and arm the timer
ExecuteCommandCall ==
  /\ budget.execs > 0
  /\ budget' = [budget EXCEPT !.execs = @ - 1]
  /\ exChild' = [NoExChild EXCEPT !.phase = "spawning"]
  /\ exSent' = <<>>
  /\ stdout' = <<>>
  /\ stderr' = <<>>
  /\ resolved' = FALSE
  /\ timeoutHandle' = SetTimeout
  /\ killTimer' = "none"
  /\ promise' = Pending
  /\ settledBy' = Unsettled
  /\ UNCHANGED supervisorVars

\* a tool runs a foreground command
ExecuteCommand == ExecuteCommandCall /\ UNCHANGED script

\* the spawn event: executeCommand has no handler for it
ExSpawn ==
  /\ exChild.phase = "spawning"
  /\ exChild' = [exChild EXCEPT !.phase = "alive"]
  /\ UNCHANGED <<budget, exSent, stdout, stderr, resolved, timeoutHandle, killTimer,
                 promise, settledBy>>
  /\ UNCHANGED <<supervisorVars, script>>

\* child.on('error') of a spawn that failed
ExSpawnError(msg) ==
  /\ exChild.phase = "spawning"
  /\ exChild' = [exChild EXCEPT !.phase = "failed", !.errored = TRUE, !.code = SpawnFailCode]
  /\ Settle(ErrorResult(msg), "error", NullCode, msg)
  /\ UNCHANGED <<budget, exSent, stdout, stderr, killTimer>>
  /\ UNCHANGED <<supervisorVars, script>>

\* child.on('error') after the spawn
ExError(msg) ==
  /\ exChild.phase = "alive"
  /\ ~exChild.errored
  /\ exChild' = [exChild EXCEPT !.errored = TRUE]
  /\ Settle(ErrorResult(msg), "error", NullCode, msg)
  /\ UNCHANGED <<budget, exSent, stdout, stderr, killTimer>>
  /\ UNCHANGED <<supervisorVars, script>>

\* child.stdout.on('data') and child.stderr.on('data'): the pipes stay open
\* until the close event
ExData(stream, chunk) ==
  /\ exChild.phase \in {"alive", "exited"}
  /\ budget.data > 0
  /\ budget' = [budget EXCEPT !.data = @ - 1]
  /\ stdout' = IF stream = "stdout" THEN stdout \o chunk ELSE stdout
  /\ stderr' = IF stream = "stderr" THEN stderr \o chunk ELSE stderr
  /\ UNCHANGED <<exChild, exSent, resolved, timeoutHandle, killTimer, promise, settledBy>>
  /\ UNCHANGED <<supervisorVars, script>>

\* child.on('exit')
ExExit(code) ==
  /\ exChild.phase = "alive"
  /\ exChild' = [exChild EXCEPT !.phase = "exited", !.code = code]
  /\ Settle(ExitResult(code), "exit", code, "")
  /\ UNCHANGED <<budget, exSent, stdout, stderr, killTimer>>
  /\ UNCHANGED <<supervisorVars, script>>

\* child.on('close'): after the exit event, or after the error event of a
\* failed spawn, with the same code
ExClose ==
  /\ exChild.phase \in {"exited", "failed"}
  /\ exChild' = [exChild EXCEPT !.phase = "closed"]
  /\ Settle(ExitResult(exChild.code), "close", exChild.code, "")
  /\ UNCHANGED <<budget, exSent, stdout, stderr, killTimer>>
  /\ UNCHANGED <<supervisorVars, script>>

\* the callback of setTimeout(..., timeoutMs)
TimeoutFires ==
  /\ ExSettled
  /\ timeoutHandle = "armed"
  /\ IF ~resolved
     THEN LET after == ResolveOnce(TimeoutResult) IN
          /\ exChild' = Kill(exChild)
          /\ exSent' = Deliver(exChild, exSent, "SIGTERM")
          /\ killTimer' = "armed"
          /\ resolved' = after.resolved
          /\ promise' = after.promise
          /\ settledBy' = [event |-> "timeout", code |-> NullCode, msg |-> "",
                           stdout |-> stdout, stderr |-> stderr]
     ELSE UNCHANGED <<exChild, exSent, killTimer, resolved, promise, settledBy>>
  /\ timeoutHandle' = "fired"
  /\ UNCHANGED <<budget, stdout, stderr>>
  /\ UNCHANGED <<supervisorVars, script>>

\* the test of the callback of the inner setTimeout(..., 5000)
KillTimerBody(c) == ~c.killed

KillTimerFires ==
  /\ killTimer = "armed"
  /\ killTimer' = "fired"
  /\ IF KillTimerBody(exChild)
     THEN /\ exChild' = Kill(exChild)
          /\ exSent' = Deliver(exChild, exSent, "SIGKILL")
     ELSE UNCHANGED <<exChild, exSent>>
  /\ UNCHANGED <<budget, stdout, stderr, resolved, timeoutHandle, promise, settledBy>>
  /\ UNCHANGED <<supervisorVars, script>>

\* ------------------------------------------------ shouldAutoDetectBackground
\* A script name is the sequence of its characters.
UpperLetters == <<"A", "B", "C", "D", "E", "F", "G", "H", "I", "J", "K", "L", "M", "N", "O", "P", "Q", "R", "S", "T", "U", "V", "W", "X", "Y", "Z">>
LowerLetters == <<"a", "b", "c", "d", "e", "f", "g", "h", "i", "j", "k", "l", "m", "n", "o", "p", "q", "r", "s", "t", "u", "v", "w", "x", "y", "z">>

\* String.prototype.toLowerCase
ToLowerCase(s) ==
  [i \in 1..Len(s) |->
     IF \E k \in 1..Len(UpperLetters) : UpperLetters[k] = s[i]
     THEN LowerLetters[CHOOSE k \in 1..Len(UpperLetters) : UpperLetters[k] = s[i]]
     ELSE s[i]]

\* String.prototype.startsWith
StartsWith(s, prefix) == Len(prefix) <= Len(s) /\ SubSeq(s, 1, Len(prefix)) = prefix

\* String.prototype.includes
Includes(s, part) ==
  \E i \in 0..(Len(s) - Len(part)) : SubSeq(s, i + 1, i + Len(part)) = part

\* cleanup, clean, reset, install, build, compile, bundle, lint, format, test, deploy, publish,
\* release, prepare, postinstall, preinstall, prebuild, postbuild, verify, check, validate, audit, update,
\* upgrade, migration, migrate, seed, init, setup, config, configure
exclusions == <<
   <<"c", "l", "e", "a", "n", "u", "p">>, <<"c", "l", "e", "a", "n">>,
   <<"r", "e", "s", "e", "t">>, <<"i", "n", "s", "t", "a", "l", "l">>,
   <<"b", "u", "i", "l", "d">>, <<"c", "o", "m", "p", "i", "l", "e">>,
   <<"b", "u", "n", "d", "l", "e">>, <<"l", "i", "n", "t">>, <<"f", "o", "r", "m", "a", "t">>,
   <<"t", "e", "s", "t">>, <<"d", "e", "p", "l", "o", "y">>,
   <<"p", "u", "b", "l", "i", "s", "h">>, <<"r", "e", "l", "e", "a", "s", "e">>,
   <<"p", "r", "e", "p", "a", "r", "e">>,
   <<"p", "o", "s", "t", "i", "n", "s", "t", "a", "l", "l">>,
   <<"p", "r", "e", "i", "n", "s", "t", "a", "l", "l">>,
   <<"p", "r", "e", "b", "u", "i", "l", "d">>, <<"p", "o", "s", "t", "b", "u", "i", "l", "d">>,
   <<"v", "e", "r", "i", "f", "y">>, <<"c", "h", "e", "c", "k">>,
   <<"v", "a", "l", "i", "d", "a", "t", "e">>, <<"a", "u", "d", "i", "t">>,
   <<"u", "p", "d", "a", "t", "e">>, <<"u", "p", "g", "r", "a", "d", "e">>,
   <<"m", "i", "g", "r", "a", "t", "i", "o", "n">>, <<"m", "i", "g", "r", "a", "t", "e">>,
   <<"s", "e", "e", "d">>, <<"i", "n", "i", "t">>, <<"s", "e", "t", "u", "p">>,
   <<"c", "o", "n", "f", "i", "g">>, <<"c", "o", "n", "f", "i", "g", "u", "r", "e">>>>

\* dev, start, serve, watch
backgroundIndicators == <<
   <<"d", "e", "v">>, <<"s", "t", "a", "r", "t">>, <<"s", "e", "r", "v", "e">>,
   <<"w", "a", "t", "c", "h">>>>

Separators == {<<":">>, <<"-">>, <<"_">>}

\* a first loop that only compares the whole name
ExcludedExactly(name) == \E k \in 1..Len(exclusions) : name = exclusions[k]

\* the first loop: the name is an exclusion, or starts with one and a separator
ExcludedByPrefix(name) ==
  \E k \in 1..Len(exclusions) :
    \/ name = exclusions[k]
    \/ StartsWith(name, exclusions[k] \o <<":">>)
    \/ StartsWith(name, exclusions[k] \o <<"-">>)
    \/ StartsWith(name, exclusions[k] \o <<"_">>)

\* a variant test that is content with an exclusion anywhere in the name
IsCleanupVariantUnjoined(name, indicator) ==
  \E k \in 1..Len(exclusions) : Includes(name, exclusions[k])

\* a variant test that only knows the order indicator, separator, exclusion
IsCleanupVariantIndicatorFirst(name, indicator) ==
  \E k \in 1..Len(exclusions) :
    LET exclusion == exclusions[k] IN
    /\ Includes(name, exclusion)
    /\ \/ Includes(name, indicator \o <<"-">> \o exclusion)
       \/ Includes(name, indicator \o <<"_">> \o exclusion)
       \/ Includes(name, indicator \o <<":">> \o exclusion)

\* isCleanupVariant, for one indicator
IsCleanupVariant(name, indicator) ==
  \E k \in 1..Len(exclusions) :
    LET exclusion == exclusions[k] IN
    /\ Includes(name, exclusion)
    /\ \/ Includes(name, indicator \o <<"-">> \o exclusion)
       \/ Includes(name, indicator \o <<"_">> \o exclusion)
       \/ Includes(name, indicator \o <<":">> \o exclusion)
       \/ Includes(name, exclusion \o <<"-">> \o indicator)
       \/ Includes(name, exclusion \o <<"_">> \o indicator)
       \/ Includes(name, exclusion \o <<":">> \o indicator)

\* a detection that compares the name as it was written
ShouldAutoDetectBackgroundCaseSensitive(scriptName) ==
  LET name == scriptName IN
  IF ExcludedByPrefix(name) THEN FALSE
  ELSE \E k \in 1..Len(backgroundIndicators) :
         /\ Includes(name, backgroundIndicators[k])
         /\ ~IsCleanupVariant(name, backgroundIndicators[k])

\* a detection whose last statement returns true
ShouldAutoDetectBackgroundByDefault(scriptName) ==
  LET name == ToLowerCase(scriptName) IN
  IF ExcludedByPrefix(name) THEN FALSE
  ELSE \/ \E k \in 1..Len(backgroundIndicators) :
            /\ Includes(name, backgroundIndicators[k])
            /\ ~IsCleanupVariant(name, backgroundIndicators[k])
       \/ \A k \in 1..Len(backgroundIndicators) : ~Includes(name, backgroundIndicators[k])

\* the second loop returns true at the first indicator the name includes
\* that is not a cleanup variant
ShouldAutoDetectBackground(scriptName) ==
  LET name == ToLowerCase(scriptName) IN
  IF ExcludedByPrefix(name) THEN FALSE
  ELSE \E k \in 1..Len(backgroundIndicators) :
         /\ Includes(name, backgroundIndicators[k])
         /\ ~IsCleanupVariant(name, backgroundIndicators[k])

\* ----------------------------------------------------- script names tried
\* the names the auto-detection notes list as background: dev, start, dev-server, start-app, serve,
\* serve-docs, watch, watch-build, dev:frontend, start_production
AutoBackgroundNames == {
   <<"d", "e", "v">>, <<"s", "t", "a", "r", "t">>,
   <<"d", "e", "v", "-", "s", "e", "r", "v", "e", "r">>,
   <<"s", "t", "a", "r", "t", "-", "a", "p", "p">>, <<"s", "e", "r", "v", "e">>,
   <<"s", "e", "r", "v", "e", "-", "d", "o", "c", "s">>, <<"w", "a", "t", "c", "h">>,
   <<"w", "a", "t", "c", "h", "-", "b", "u", "i", "l", "d">>,
   <<"d", "e", "v", ":", "f", "r", "o", "n", "t", "e", "n", "d">>,
   <<"s", "t", "a", "r", "t", "_", "p", "r", "o", "d", "u", "c", "t", "i", "o", "n">>}

\* the names the notes list as foreground: cleanup, clean, reset, build, test, lint, format,
\* deploy, install, dev-cleanup, start-reset, build-dev, test-watch, cleanup:dev, reset_dev
AutoForegroundNames == {
   <<"c", "l", "e", "a", "n", "u", "p">>, <<"c", "l", "e", "a", "n">>,
   <<"r", "e", "s", "e", "t">>, <<"b", "u", "i", "l", "d">>, <<"t", "e", "s", "t">>,
   <<"l", "i", "n", "t">>, <<"f", "o", "r", "m", "a", "t">>, <<"d", "e", "p", "l", "o", "y">>,
   <<"i", "n", "s", "t", "a", "l", "l">>,
   <<"d", "e", "v", "-", "c", "l", "e", "a", "n", "u", "p">>,
   <<"s", "t", "a", "r", "t", "-", "r", "e", "s", "e", "t">>,
   <<"b", "u", "i", "l", "d", "-", "d", "e", "v">>,
   <<"t", "e", "s", "t", "-", "w", "a", "t", "c", "h">>,
   <<"c", "l", "e", "a", "n", "u", "p", ":", "d", "e", "v">>,
   <<"r", "e", "s", "e", "t", "_", "d", "e", "v">>}

\* the names the notes list as complex cases: dev-build, build-watch, server-dev, development, devtools, predev, testdev
ComplexNames == {
   <<"d", "e", "v", "-", "b", "u", "i", "l", "d">>,
   <<"b", "u", "i", "l", "d", "-", "w", "a", "t", "c", "h">>,
   <<"s", "e", "r", "v", "e", "r", "-", "d", "e", "v">>,
   <<"d", "e", "v", "e", "l", "o", "p", "m", "e", "n", "t">>,
   <<"d", "e", "v", "t", "o", "o", "l", "s">>, <<"p", "r", "e", "d", "e", "v">>,
   <<"t", "e", "s", "t", "d", "e", "v">>}

\* further names: test-e2e-watch, build-app-serve, clean:all:start, setup_predev, lint-predev, e2e, unit, Dev, TEST,
\* Build-Dev, DEV-SERVER, Test:Watch, restart, preview, storybook, latest-dev, contest-dev,
\* DEV, BUILD, Dev-Cleanup, Start_Reset, serve-dev-build
OtherNames == {
   <<"t", "e", "s", "t", "-", "e", "2", "e", "-", "w", "a", "t", "c", "h">>,
   <<"b", "u", "i", "l", "d", "-", "a", "p", "p", "-", "s", "e", "r", "v", "e">>,
   <<"c", "l", "e", "a", "n", ":", "a", "l", "l", ":", "s", "t", "a", "r", "t">>,
   <<"s", "e", "t", "u", "p", "_", "p", "r", "e", "d", "e", "v">>,
   <<"l", "i", "n", "t", "-", "p", "r", "e", "d", "e", "v">>, <<"e", "2", "e">>,
   <<"u", "n", "i", "t">>, <<"D", "e", "v">>, <<"T", "E", "S", "T">>,
   <<"B", "u", "i", "l", "d", "-", "D", "e", "v">>,
   <<"D", "E", "V", "-", "S", "E", "R", "V", "E", "R">>,
   <<"T", "e", "s", "t", ":", "W", "a", "t", "c", "h">>, <<"r", "e", "s", "t", "a", "r", "t">>,
   <<"p", "r", "e", "v", "i", "e", "w">>, <<"s", "t", "o", "r", "y", "b", "o", "o", "k">>,
   <<"l", "a", "t", "e", "s", "t", "-", "d", "e", "v">>,
   <<"c", "o", "n", "t", "e", "s", "t", "-", "d", "e", "v">>,
   <<"D", "E", "V">>, <<"B", "U", "I", "L", "D">>,
   <<"D", "e", "v", "-", "C", "l", "e", "a", "n", "u", "p">>,
   <<"S", "t", "a", "r", "t", "_", "R", "e", "s", "e", "t">>,
   <<"s", "e", "r", "v", "e", "-", "d", "e", "v", "-", "b", "u", "i", "l", "d">>}

\* dev, start, serve, watch, test, build, clean, init, app: the words of the composed names
NameWords == {
   <<"d", "e", "v">>, <<"s", "t", "a", "r", "t">>, <<"s", "e", "r", "v", "e">>,
   <<"w", "a", "t", "c", "h">>, <<"t", "e", "s", "t">>, <<"b", "u", "i", "l", "d">>,
   <<"c", "l", "e", "a", "n">>, <<"i", "n", "i", "t">>, <<"a", "p", "p">>}

\* two words, run together or joined by a separator
ComposedNames ==
  {a \o j \o b : a \in NameWords, b \in NameWords, j \in Separators \cup {<<>>}}

ScriptNames ==
  AutoBackgroundNames \cup AutoForegroundNames \cup ComplexNames \cup OtherNames
    \cup NameWords \cup ComposedNames

\* --------------------------------------------------------------- run-script
NoTimeout == 0               \* no timeout argument: the schema admits 1000 to 300000
DefaultTimeoutMs == 30000    \* the default of executeCommand's timeoutMs parameter

NoScript ==
  [tool |-> "none", scriptName |-> <<>>, background |-> FALSE, timeout |-> NoTimeout,
   valid |-> FALSE, route |-> "idle", called |-> FALSE, detected |-> FALSE, timeoutMs |-> 0]

\* scriptName.toLowerCase().includes('e2e') || ...includes('test')
IsLongRunning(scriptName) ==
  \/ Includes(ToLowerCase(scriptName), <<"e", "2", "e">>)
  \/ Includes(ToLowerCase(scriptName), <<"t", "e", "s", "t">>)

TimeoutMs(scriptName) == IF IsLongRunning(scriptName) THEN 60000 ELSE 30000

\* background || shouldAutoDetectBackground(scriptName)
ShouldRunInBackground(background, detected) == background \/ detected

\* the handler of run-script up to the command it starts; script.valid says
\* that validateScript and validateDependencies do not throw.  The || calls
\* shouldAutoDetectBackground only when background is false.
RunScript ==
  /\ script.tool = "run-script"
  /\ script.route = "pending"
  /\ IF ~script.valid
     THEN /\ script' = [script EXCEPT !.route = "error"]
          /\ UNCHANGED <<supervisorVars, budget, exVars>>
     ELSE LET called == ~script.background
              detected == called /\ ShouldAutoDetectBackground(script.scriptName)
              shouldRunInBackground == ShouldRunInBackground(script.background, detected)
          IN /\ script' = [script EXCEPT
                   !.route = IF shouldRunInBackground THEN "background" ELSE "foreground",
                   !.called = called,
                   !.detected = detected,
                   !.timeoutMs = IF shouldRunInBackground THEN 0
                                 ELSE TimeoutMs(script.scriptName)]
             /\ IF shouldRunInBackground
                THEN ExecuteBackgroundCommand(TaskOrder[1])
                ELSE ExecuteCommandCall

\* ------------------------------------- run-tests, build-project, install-deps
\* a foreground tool validates, then calls executeCommand with timeoutMs
CallForeground(timeoutMs) ==
  /\ script.route = "pending"
  /\ IF ~script.valid
     THEN /\ script' = [script EXCEPT !.route = "error"]
          /\ UNCHANGED <<supervisorVars, budget, exVars>>
     ELSE /\ script' = [script EXCEPT !.route = "foreground", !.timeoutMs = timeoutMs]
          /\ ExecuteCommandCall

\* timeout ?? (testScript.toLowerCase().includes('e2e') ? 90000 : 30000)
TestTimeoutMs(testScript, timeout) ==
  IF timeout # NoTimeout THEN timeout
  ELSE IF Includes(ToLowerCase(testScript), <<"e", "2", "e">>) THEN 90000 ELSE 30000

\* run-tests; script.scriptName is testScript
RunTests ==
  /\ script.tool = "run-tests"
  /\ CallForeground(TestTimeoutMs(script.scriptName, script.timeout))

\* build-project: its schema has no timeout, executeCommand gets three
\* arguments; script.scriptName is buildScript
BuildProject ==
  /\ script.tool = "build-project"
  /\ CallForeground(DefaultTimeoutMs)

\* install-deps: its schema has no timeout, executeCommand gets three
\* arguments; script.valid says that the handler reaches the command
InstallDeps ==
  /\ script.tool = "install-deps"
  /\ CallForeground(DefaultTimeoutMs)

\* the tools that take a script to run, and install-deps
ForegroundTools == {"run-tests", "build-project", "run-script", "install-deps"}

\* the timeout arguments tried: none, the least, one between, the greatest
Timeouts == {NoTimeout, 1000, 120000, 300000}

\* test, test:e2e, e2e, test:integration, test:unit, build, build:prod,
\* lint, format, deploy, E2E, Test
ToolScriptNames ==
  {<<"t", "e", "s", "t">>,
   <<"t", "e", "s", "t", ":", "e", "2", "e">>,
   <<"e", "2", "e">>,
   <<"t", "e", "s", "t", ":", "i", "n", "t", "e", "g", "r", "a", "t", "i", "o", "n">>,
   <<"t", "e", "s", "t", ":", "u", "n", "i", "t">>,
   <<"b", "u", "i", "l", "d">>,
   <<"b", "u", "i", "l", "d", ":", "p", "r", "o", "d">>,
   <<"l", "i", "n", "t">>,
   <<"f", "o", "r", "m", "a", "t">>,
   <<"d", "e", "p", "l", "o", "y">>,
   <<"E", "2", "E">>,
   <<"T", "e", "s", "t">>}

\* ---------------------------------------------------------- specification
InitIdle ==
  /\ backgroundTasks = << >>
  /\ child = [t \in TaskIds |-> NoChild]
  /\ sent = [t \in TaskIds |-> <<>>]
  /\ escalation = [t \in TaskIds |-> "none"]
  /\ startup = [t \in TaskIds |-> NoStartup]
  /\ response = NoResponse
  /\ now = 0
  /\ arrived = [t \in TaskIds |-> <<>>]
  /\ exChild = NoExChild
  /\ exSent = <<>>
  /\ stdout = <<>>
  /\ stderr = <<>>
  /\ resolved = FALSE
  /\ timeoutHandle = "none"
  /\ killTimer = "none"
  /\ promise = Pending
  /\ settledBy = Unsettled

\* the background supervisor with one task
Init == InitIdle /\ script = NoScript /\ budget = [starts |-> 1, execs |-> 0, data |-> MaxData, cleanups |-> MaxCleanup]

\* the background supervisor with two tasks
InitPair == InitIdle /\ script = NoScript /\ budget = [starts |-> 2, execs |-> 0, data |-> 0, cleanups |-> MaxCleanup]

\* two tasks and stops whose kill may throw
InitStop == InitIdle /\ script = NoScript /\ budget = [starts |-> 2, execs |-> 0, data |-> 0, cleanups |-> 0]

\* two tasks and a shutdown in which cleanup runs more than once
InitShutdown == InitIdle /\ script = NoScript /\ budget = [starts |-> 2, execs |-> 0, data |-> 0, cleanups |-> MaxShutdown]

\* two tasks and one data event, of either
InitFrame == InitIdle /\ script = NoScript /\ budget = [starts |-> 2, execs |-> 0, data |-> 1, cleanups |-> 0]

\* one foreground command
InitExec == InitIdle /\ script = NoScript /\ budget = [starts |-> 0, execs |-> 1, data |-> MaxExecData, cleanups |-> 0]

\* three tasks, started at any ticks of the clock
InitList == InitIdle /\ script = NoScript /\ budget = [starts |-> 3, execs |-> 0, data |-> 0, cleanups |-> 0]

\* one call of a foreground tool, with or without a timeout argument
InitTools ==
  /\ InitIdle
  /\ budget = [starts |-> 1, execs |-> 1, data |-> 0, cleanups |-> 0]
  /\ \E tool \in ForegroundTools, scriptName \in ToolScriptNames, timeout \in Timeouts,
        valid \in BOOLEAN :
       script = [NoScript EXCEPT !.tool = tool, !.scriptName = scriptName,
                                 !.timeout = timeout, !.valid = valid, !.route = "pending"]

\* one task that does nothing but write
InitData == InitIdle /\ script = NoScript /\ budget = [starts |-> 1, execs |-> 0, data |-> MaxStream, cleanups |-> 0]

\* one call of run-script: any of the names, with or without the background
\* argument, for a script that is defined or not
InitScript ==
  /\ InitIdle
  /\ budget = [starts |-> 1, execs |-> 1, data |-> 0, cleanups |-> 0]
  /\ \E scriptName \in ScriptNames, background \in BOOLEAN, valid \in BOOLEAN :
       script = [NoScript EXCEPT !.tool = "run-script", !.scriptName = scriptName,
                                 !.background = background, !.valid = valid,
                                 !.route = "pending"]

Next ==
  \/ \E t \in TaskIds : Start(t)
  \/ \E t \in TaskIds : Spawn(t)
  \/ \E t \in TaskIds : AckFires(t)
  \/ \E t \in TaskIds, msg \in SpawnErrors : SpawnError(t, msg)
  \/ \E id \in TaskIds \cup {GhostId}, force \in BOOLEAN : StopBackgroundTask(id, force)
  \/ \E id \in TaskIds \cup {GhostId}, lines \in LinesArgs : GetBackgroundOutput(id, lines)
  \/ \E t \in TaskIds, ev \in DataEvents : Data(t, ev[1], ev[2])
  \/ \E t \in TaskIds, code \in ExitCodes : Exit(t, code)
  \/ \E t \in TaskIds, msg \in LaterErrors : Error(t, msg)
  \/ \E t \in TaskIds : EscalationFires(t)
  \/ Cleanup

NextExec ==
  \/ ExecuteCommand
  \/ ExSpawn
  \/ \E msg \in SpawnErrors : ExSpawnError(msg)
  \/ \E msg \in LaterErrors : ExError(msg)
  \/ \E stream \in Streams, chunk \in ExecChunks : ExData(stream, chunk)
  \/ \E code \in ExitCodes : ExExit(code)
  \/ ExClose
  \/ TimeoutFires
  \/ KillTimerFires

\* two tasks whose children write nothing, read with the default number of
\* lines
NextPair ==
  \/ \E t \in TaskIds : Start(t)
  \/ \E t \in TaskIds : Spawn(t)
  \/ \E t \in TaskIds : AckFires(t)
  \/ \E t \in TaskIds, msg \in SpawnErrors : SpawnError(t, msg)
  \/ \E id \in TaskIds \cup {GhostId}, force \in BOOLEAN : StopBackgroundTask(id, force)
  \/ \E id \in TaskIds \cup {GhostId} : GetBackgroundOutput(id, DefaultLines)
  \/ ListBackgroundTasks
  \/ \E t \in TaskIds, code \in ExitCodes : Exit(t, code)
  \/ \E t \in TaskIds, msg \in LaterErrors : Error(t, msg)
  \/ \E t \in TaskIds : EscalationFires(t)
  \/ Cleanup

NextScript == RunScript

\* tasks that start, stop and exit while the clock runs, and the listing
NextList ==
  \/ \E t \in TaskIds : Start(t)
  \/ \E t \in TaskIds : Spawn(t)
  \/ \E t \in TaskIds, msg \in SpawnErrors : SpawnError(t, msg)
  \/ \E id \in TaskIds \cup {GhostId}, force \in BOOLEAN : StopBackgroundTask(id, force)
  \/ \E t \in TaskIds, code \in ExitCodes : Exit(t, code)
  \/ Tick
  \/ ListBackgroundTasks

Spec == Init /\ [][Next]_vars

SpecScript == InitScript /\ [][NextScript]_vars

SpecList == InitList /\ [][NextList]_vars

NextTools ==
  \/ RunTests
  \/ BuildProject
  \/ RunScript
  \/ InstallDeps

SpecTools == InitTools /\ [][NextTools]_vars

\* a task whose child writes to stdout and stderr and stays alive
NextData ==
  \/ \E t \in TaskIds : Start(t)
  \/ \E t \in TaskIds : Spawn(t)
  \/ \E t \in TaskIds : AckFires(t)
  \/ \E t \in TaskIds, ev \in DataEvents : Data(t, ev[1], ev[2])

SpecData == InitData /\ [][NextData]_vars

SpecPair == InitPair /\ [][NextPair]_vars

\* tasks that are stopped, by a kill that delivers the signal or by one that throws
NextStop ==
  \/ \E t \in TaskIds : Start(t)
  \/ \E t \in TaskIds : Spawn(t)
  \/ \E t \in TaskIds, msg \in SpawnErrors : SpawnError(t, msg)
  \/ \E id \in TaskIds \cup {GhostId}, force \in BOOLEAN : StopBackgroundTask(id, force)
  \/ \E id \in TaskIds, force \in BOOLEAN, msg \in KillErrors :
        StopBackgroundTaskKillThrows(id, force, msg)
  \/ \E t \in TaskIds, code \in ExitCodes : Exit(t, code)
  \/ \E t \in TaskIds, msg \in LaterErrors : Error(t, msg)
  \/ \E t \in TaskIds : EscalationFires(t)

SpecStop == InitStop /\ [][NextStop]_vars

\* the events and operations that concern one task, with two tasks registered
NextFrame ==
  \/ \E t \in TaskIds : Start(t)
  \/ \E t \in TaskIds : Spawn(t)
  \/ \E t \in TaskIds, ev \in DataEvents : Data(t, ev[1], ev[2])
  \/ \E t \in TaskIds, code \in ExitCodes : Exit(t, code)
  \/ \E t \in TaskIds, msg \in LaterErrors : Error(t, msg)
  \/ \E id \in TaskIds, force \in BOOLEAN : StopBackgroundTask(id, force)
  \/ \E t \in TaskIds : EscalationFires(t)
  \/ \E id \in TaskIds : GetBackgroundOutput(id, DefaultLines)

SpecFrame == InitFrame /\ [][NextFrame]_vars

\* tasks that run, stop and exit while the server shuts down: cleanup is the
\* handler of SIGINT, of SIGTERM and of the exit of the server
NextShutdown ==
  \/ \E t \in TaskIds : Start(t)
  \/ \E t \in TaskIds : Spawn(t)
  \/ \E t \in TaskIds, msg \in SpawnErrors : SpawnError(t, msg)
  \/ \E id \in TaskIds, force \in BOOLEAN : StopBackgroundTask(id, force)
  \/ \E t \in TaskIds, code \in ExitCodes : Exit(t, code)
  \/ Cleanup
  \/ \E t \in TaskIds : CleanupKillThrows(t)

SpecShutdown == InitShutdown /\ [][NextShutdown]_vars

SpecExec == InitExec /\ [][NextExec]_vars

\* the event loop runs what is due: the spawn or error event that spawn()
\* queued for the next tick, and the callback of a pending timeout timer.
\* Nothing makes the child write, exit or close.
ExecFairness ==
  /\ WF_vars(ExSpawn \/ \E msg \in SpawnErrors : ExSpawnError(msg))
  /\ WF_vars(TimeoutFires)

SpecExecLive == SpecExec /\ ExecFairness

\* ------------------------------------------------------------------ claims
Status(t) == backgroundTasks[t].status
Output(t) == backgroundTasks[t].output

\* C1: every registered task's output buffer holds at most 100 lines, in
\* every state reached by data, exit and error events, stop calls, the
\* escalation timer and cleanup runs.
C1_OutputAtMost100 == \A t \in Registered : Len(Output(t)) <= MaxOutputLines

\* C2: a task's status starts as running, and once it is stopped or failed
\* no event or call changes it again.
C2_TerminalStatusIsFinal ==
  /\ [][\A t \in TaskIds :
          t \in DOMAIN backgroundTasks' /\ t \notin Registered
            => backgroundTasks'[t].status = "running"]_vars
  /\ [][\A t \in Registered :
          Status(t) # "running" => backgroundTasks'[t].status = Status(t)]_vars

\* C3: when the 5 s timer of a graceful stop fires and the process has not
\* exited, SIGKILL is sent to it and a force-kill record is appended; a
\* forced stop arms no timer.
C3_GracefulStopEscalates ==
  /\ [][\A t \in Registered :
          escalation[t] = "armed" /\ escalation'[t] = "fired" /\ child[t].phase = "alive"
            => /\ sent'[t] = Append(sent[t], "SIGKILL")
               /\ backgroundTasks'[t].output = Append(Output(t), ForceKillLine)]_vars
  /\ [][response'.op = "stop" /\ response'.kind = "Stopped" /\ response'.signal = "SIGKILL"
          => escalation' = escalation]_vars

C5_UnknownIdNotFound ==
  [][response'.op \in {"stop", "get"} /\ response'.taskId \notin Registered =>
       /\ response'.kind = "NotFound"
       /\ response'.ids = Registered
       /\ sent' = sent
       /\ child' = child
       /\ escalation' = escalation
       /\ backgroundTasks' = backgroundTasks]_vars

\* C5 witness: not found, with two tasks registered, one of them running
C5_Witness ==
  /\ response.kind = "NotFound"
  /\ response.ids = {TaskOrder[1], TaskOrder[2]}
  /\ \E t \in Registered : Status(t) = "running"
  /\ \E t \in Registered : Status(t) # "running" /\ Output(t) # <<>>

\* the child has emitted close, exit or error, or the timeout timer has fired
ResolvingEventSeen ==
  \/ exChild.phase \in {"exited", "closed", "failed"}
  \/ exChild.errored
  \/ timeoutHandle = "fired"

\* C6: the promise of executeCommand is resolved exactly once: the first
\* close, exit, error or timeout resolves it, resolve is never called a
\* second time, and no later event changes the result.
C6_ResolvedExactlyOnce ==
  /\ [](promise.calls <= 1)
  /\ [](ResolvingEventSeen <=> promise.value # None)
  /\ [](ResolvingEventSeen <=> promise.calls = 1)
  /\ [][promise.value # None => promise'.value = promise.value]_vars

\* C6 witness: resolved by the exit event, and the close event and the data
\* after it have come since
C6_Witness ==
  /\ settledBy.event = "exit"
  /\ exChild.phase = "closed"
  /\ promise.calls = 1
  /\ Trim(stdout) # promise.value.stdout

\* C7: success is true exactly when a close or exit event with code 0
\* resolved the promise, which it only does before the timeout timer fires.
C7_SuccessIffExitZero ==
  promise.value # None =>
    /\ promise.value.success <=>
         (settledBy.event \in {"close", "exit"} /\ settledBy.code = 0)
    /\ settledBy.event \in {"close", "exit"} => timeoutHandle = "cleared"

\* C7 witness: a success
C7_Witness == promise.value # None /\ promise.value.success

\* C8: a timeout timer that fires before any close, exit or error sends
\* SIGTERM and resolves at once, the child still alive, with success false,
\* the stdout received so far and the stderr received so far followed by
\* the timeout notice; an exit with code 0 afterwards leaves that result.
C8_TimeoutResolvesAtOnce ==
  /\ [][timeoutHandle = "armed" /\ timeoutHandle' = "fired" =>
          /\ exSent' = Append(exSent, "SIGTERM")
          /\ exChild'.phase = "alive"
          /\ promise'.value.success = FALSE
          /\ promise'.value.stdout = Trim(stdout)
          /\ LET err == promise'.value.stderr IN
             /\ err # <<>>
             /\ err[Len(err)] = TimeoutNotice
             /\ Trim(SubSeq(err, 1, Len(err) - 1)) = Trim(stderr)]_vars
  /\ [](settledBy.event = "timeout" =>
          /\ promise.value.success = FALSE
          /\ promise.value.stdout = Trim(settledBy.stdout))

\* C8 witness: timed out with output received, then the child exited with 0
C8_Witness ==
  /\ settledBy.event = "timeout"
  /\ exChild.phase = "exited" /\ exChild.code = 0
  /\ Trim(settledBy.stdout) # <<>> /\ Trim(settledBy.stderr) # <<>>
  /\ promise.value.stdout = Trim(settledBy.stdout)
  /\ ~promise.value.success

\* C9: when the 5 s timer set by a timeout fires and the child is still
\* alive, SIGKILL is sent to it.
C9_TimeoutEscalates ==
  [][killTimer = "armed" /\ killTimer' = "fired" /\ exChild.phase = "alive"
       => exSent' = Append(exSent, "SIGKILL")]_vars

\* C10: when the error event is the first to resolve, the result has
\* success false, an empty stdout whatever was received, and the error
\* message as stderr.
C10_ErrorFirst ==
  settledBy.event = "error" =>
    promise.value = [stdout |-> <<>>, stderr |-> <<settledBy.msg>>, success |-> FALSE]

\* C10 witness: the error event resolved after stdout had been received
C10_Witness ==
  /\ settledBy.event = "error"
  /\ Trim(settledBy.stdout) # <<>>
  /\ promise.value.stdout = <<>>

\* the text holds the token
Holds(text, tok) == \E i \in 1..Len(text) : text[i] = tok

\* new is old with line added at its end, cut to the last 100 lines
AppendedWithinWindow(old, new, line) ==
  /\ new # <<>>
  /\ new[Len(new)] = line
  /\ Len(new) = Min(Len(old) + 1, MaxOutputLines)
  /\ SubSeq(new, 1, Len(new) - 1) = SubSeq(old, Len(old) - Len(new) + 2, Len(old))

StartPromise(t) == startup[t].promise

\* C11: the spawn event arms the 3 s acknowledgment timer and nothing
\* cancels it; when it fires and no error event has come, the start promise
\* resolves with success, an empty stderr and a summary holding the task id,
\* the working directory and the command line, with or without output.
C11_AckAfterSpawn ==
  /\ [][\A t \in TaskIds :
          child[t].phase = "spawning" /\ child'[t].phase = "alive"
            => startup'[t].ack = "armed"]_vars
  /\ [][\A t \in TaskIds :
          startup[t].ack = "armed" => startup'[t].ack \in {"armed", "fired"}]_vars
  /\ [][\A t \in TaskIds :
          startup[t].ack = "armed" /\ startup'[t].ack = "fired" /\ ~child[t].errored
            => LET result == startup'[t].promise.value IN
               /\ result # None
               /\ result.success = TRUE
               /\ result.stderr = <<>>
               /\ Holds(result.stdout, t)
               /\ Holds(result.stdout, "<cwd>")
               /\ Holds(result.stdout, "<command> <args>")]_vars

\* C11 witness: acknowledged with success although the child wrote nothing
C11_Witness ==
  \E t \in Registered :
    /\ startup[t].ack = "fired"
    /\ ~child[t].errored
    /\ ~startup[t].hasOutput
    /\ StartPromise(t).value # None /\ StartPromise(t).value.success

\* C12: every error event of a background child sets the status to failed
\* and appends an [ERROR] line; the start promise takes the outcome of the
\* first of the error event (failure with the message) and the
\* acknowledgment timer (success), and the later one does not change it.
C12_ErrorOrAckFirst ==
  /\ [][\A t \in Registered :
          ~child[t].errored /\ child'[t].errored
            => /\ backgroundTasks'[t].status = "failed"
               /\ \E msg \in ErrorMessages :
                    AppendedWithinWindow(Output(t), backgroundTasks'[t].output, ErrorLine(msg))]_vars
  /\ [][\A t \in Registered :
          StartPromise(t).value = None /\ startup'[t].promise.value # None
            => LET result == startup'[t].promise.value IN
               IF child'[t].errored /\ ~child[t].errored
               THEN /\ result.success = FALSE
                    /\ \E msg \in ErrorMessages :
                         /\ Holds(result.stderr, msg)
                         /\ backgroundTasks'[t].output[Len(backgroundTasks'[t].output)]
                              = ErrorLine(msg)
               ELSE /\ startup[t].ack = "armed" /\ startup'[t].ack = "fired"
                    /\ result.success = TRUE]_vars
  /\ [][\A t \in Registered :
          StartPromise(t).value # None
            => startup'[t].promise.value = StartPromise(t).value]_vars

\* C12 witness: the error event came first and the timer fired afterwards
C12_Witness ==
  \E t \in Registered :
    /\ child[t].errored
    /\ startup[t].ack = "fired"
    /\ StartPromise(t).calls = 2
    /\ StartPromise(t).value.success = FALSE
    /\ Status(t) = "failed"

\* C13: an exit event, at any time after the spawn, sets the status to
\* stopped for code 0 and to failed for any other code, and appends one
\* [PROCESS] line recording the code.
C13_ExitSetsStatus ==
  [][\A t \in Registered :
       child[t].phase = "alive" /\ child'[t].phase = "exited"
         => \E code \in ExitCodes :
              /\ AppendedWithinWindow(Output(t), backgroundTasks'[t].output, ProcessLine(code))
              /\ backgroundTasks'[t].status = IF code = 0 THEN "stopped" ELSE "failed"]_vars

\* C13 witness: the child exited with code 0 before the acknowledgment
\* timer fired
C13_Witness ==
  \E t \in Registered :
    /\ child[t].phase = "exited"
    /\ startup[t].ack = "armed"
    /\ Status(t) = "stopped"
    /\ Output(t) = <<ProcessLine(0)>>

\* the exclusion keywords and the indicators, as sets
ExclusionWords == {exclusions[k] : k \in 1..Len(exclusions)}
IndicatorWords == {backgroundIndicators[k] : k \in 1..Len(backgroundIndicators)}

\* the lower-cased name of the run-script call
LowerName == ToLowerCase(script.scriptName)

\* the name is an exclusion keyword, or starts with one followed by : - or _
PrefixRuleApplies ==
  \E e \in ExclusionWords :
    LowerName = e \/ \E sep \in Separators : StartsWith(LowerName, e \o sep)

\* an exclusion keyword is joined to an indicator by - _ or :
ExclusionJoined ==
  \E e \in ExclusionWords, ind \in IndicatorWords, sep \in Separators :
    Includes(LowerName, ind \o sep \o e) \/ Includes(LowerName, e \o sep \o ind)

\* C14: for a valid script, background=true runs it through
\* executeBackgroundCommand and background=false through executeCommand,
\* whatever the auto-detection says of the name.
C14_ExplicitOverride ==
  script.route \in {"background", "foreground"} =>
    IF script.background
    THEN script.route = "background" /\ Registered # {} /\ exChild.phase = "none"
    ELSE script.route = "foreground" /\ Registered = {} /\ exChild.phase = "spawning"

\* C15: shouldAutoDetectBackground returns false for every name whose
\* lower-cased form is an exclusion keyword or starts with one followed by
\* ':', '-' or '_', whatever indicators the name contains.
C15_ExclusionsWin == script.called /\ PrefixRuleApplies => ~script.detected

\* C15 witness: a name such as lint-predev or test-e2e-watch, where only
\* the prefix rule keeps the indicator from deciding
C15_Witness ==
  /\ script.called /\ ~script.detected
  /\ PrefixRuleApplies /\ ~ExclusionJoined
  /\ \E ind \in IndicatorWords : Includes(LowerName, ind)

C17_TestdevForeground ==
  script.called /\ script.scriptName = <<"t", "e", "s", "t", "d", "e", "v">>
    => ~script.detected

\* C18: shouldAutoDetectBackground returns true for each of dev, start,
\* dev-server, start-app, serve, serve-docs, watch, watch-build,
\* dev:frontend and start_production.
C18_DocumentedBackground ==
  script.called /\ script.scriptName \in AutoBackgroundNames => script.detected

\* the last k lines of a buffer, in buffer order; none for k <= 0
LastLines(buffer, k) ==
  IF k <= 0 THEN <<>>
  ELSE SubSeq(buffer, (IF Len(buffer) > k THEN Len(buffer) - k + 1 ELSE 1), Len(buffer))

\* C19: for every registered task and every number of lines asked for, zero,
\* negative and above 100 included, get-background-output returns the last
\* min(lines, 100) lines of the buffer in buffer order, never more of them.
C19_TailOfBuffer ==
  [][response'.op = "get" /\ response'.kind = "Output" =>
       LET wanted == Min(response'.asked, MaxOutputLines) IN
       /\ response'.lines = LastLines(Output(response'.taskId), wanted)
       /\ wanted >= 0 => Len(response'.lines) <= wanted]_vars

\* C20: list-background-tasks returns every registered task, whatever its
\* status, exactly once, a task that started later before one that started
\* earlier; it never fails and changes neither the registry nor a child.
C20_ListNewestFirst ==
  [][response'.op = "list" =>
       LET tasks == response'.tasks IN
       /\ response'.kind \in {"Tasks", "Empty"}
       /\ Len(tasks) = Cardinality(Registered)
       /\ {tasks[i].id : i \in 1..Len(tasks)} = Registered
       /\ \A i \in 1..Len(tasks) :
            /\ tasks[i].status = Status(tasks[i].id)
            /\ tasks[i].startTime = backgroundTasks[tasks[i].id].startTime
       /\ \A i \in 1..Len(tasks), j \in 1..Len(tasks) :
            tasks[i].startTime > tasks[j].startTime => i < j
       /\ backgroundTasks' = backgroundTasks
       /\ child' = child
       /\ sent' = sent]_vars

\* C20 witness: a listing of a running, a stopped and a failed task, the
\* last one started first in the listing
C20_Witness ==
  /\ response.op = "list" /\ response.kind = "Tasks"
  /\ Len(response.tasks) = 3
  /\ {response.tasks[i].status : i \in 1..3} = {"running", "stopped", "failed"}
  /\ response.tasks[1].id = TaskOrder[3]
  /\ response.tasks[1].startTime > response.tasks[2].startTime
  /\ response.tasks[2].startTime = response.tasks[3].startTime

\* C21: the set of ids in the registry only grows: no exit, error, stop,
\* read, listing or cleanup removes a task, and a task that has terminated
\* is still read by its id.
C21_RegistryOnlyGrows ==
  /\ [][\A t \in Registered : t \in DOMAIN backgroundTasks']_vars
  /\ [][response'.op = "get" /\ response'.taskId \in Registered
          => response'.kind = "Output"]_vars

\* C21 witness: with two tasks registered, a read of one that has exited,
\* after a cleanup run
C21_Witness ==
  /\ Cardinality(Registered) = 2
  /\ budget.cleanups = 0
  /\ response.op = "get" /\ response.kind = "Output"
  /\ child[response.taskId].phase = "exited"
  /\ response.status = "failed"
  /\ response.lines # <<>>

ArrivedLines(t) == [i \in 1..Len(arrived[t]) |-> arrived[t][i].line]

\* C23: after any sequence of stdout and stderr data events that appended n
\* lines to a task, its buffer is the last min(n, 100) of those lines in
\* order of arrival.
C23_BufferIsTailOfArrived ==
  \A t \in Registered :
    Output(t) = LastLines(ArrivedLines(t), Min(Len(arrived[t]), MaxOutputLines))

\* C23 witness: more than 100 lines arrived, from both streams, and the
\* first ones are gone
C23_Witness ==
  \E t \in Registered :
    /\ Len(arrived[t]) > MaxOutputLines
    /\ Len(Output(t)) = MaxOutputLines
    /\ \E i \in 1..Len(arrived[t]) : arrived[t][i].stream = "stderr"
    /\ \E i \in 1..Len(arrived[t]) : arrived[t][i].stream = "stdout"
    /\ Output(t)[MaxOutputLines] = arrived[t][Len(arrived[t])].line
    /\ Output(t)[1] # arrived[t][1].line

\* C24: every line appended from a stderr chunk, a chunk of several lines
\* included, carries the [STDERR] marker, and no line made only of white
\* space is appended.
C24_StderrLinesMarked ==
  \A t \in Registered :
    \A i \in 1..Len(arrived[t]) :
      /\ Trim(arrived[t][i].line) # <<>>
      /\ arrived[t][i].stream = "stderr" => arrived[t][i].line[1] = "[STDERR] "

\* C25: without a timeout argument, run-script and run-tests pass
\* executeCommand 90,000 ms for a name that contains e2e, 60,000 ms for one
\* that contains test and not e2e, and 30,000 ms otherwise.
C25_DefaultTimeouts ==
  script.route = "foreground" /\ script.timeout = NoTimeout
    /\ script.tool \in {"run-script", "run-tests"}
    => script.timeoutMs =
         IF Includes(ToLowerCase(script.scriptName), <<"e", "2", "e">>) THEN 90000
         ELSE IF Includes(ToLowerCase(script.scriptName), <<"t", "e", "s", "t">>) THEN 60000
         ELSE 30000

\* C26: run-tests, build-project, run-script and install-deps, called with
\* a timeout between 1,000 and 300,000 ms, execute the command with exactly
\* that timeout.
C26_TimeoutArgumentUsed ==
  script.route = "foreground" /\ script.timeout # NoTimeout
    => script.timeoutMs = script.timeout

\* C27: when process.kill throws during a stop of a running task, the call
\* returns the failure that suggests force, the task stays running with its
\* output as it was, no signal is delivered and no escalation timer is set.
C27_KillThrowsLeavesTaskRunning ==
  [][\A t \in Registered :
       response'.kind = "StopFailed" /\ response'.taskId = t =>
         /\ Status(t) = "running"
         /\ response'.hint = "force: true"
         /\ backgroundTasks'[t].status = "running"
         /\ backgroundTasks'[t].output = Output(t)
         /\ sent' = sent
         /\ child' = child
         /\ escalation' = escalation]_vars

\* C27 witness: a failed stop of a running task that keeps running, with no
\* record, no signal and no timer
C27_Witness ==
  /\ response.kind = "StopFailed"
  /\ Status(response.taskId) = "running"
  /\ child[response.taskId].phase = "alive"
  /\ sent[response.taskId] = <<>>
  /\ escalation[response.taskId] = "none"
  /\ \A i \in 1..Len(Output(response.taskId)) :
       Output(response.taskId)[i][1] # "[SYSTEM] Process terminated with "

\* C28: every call of executeCommand is resolved in the end, whatever the
\* child does; once the timeout timer has fired the promise is resolved, so
\* a child that never closes, exits or fails is resolved by the timer.
C28_EventuallyResolved ==
  /\ (exChild.phase # "none") ~> (promise.value # None)
  /\ [](timeoutHandle = "fired" => promise.value # None)

\* C28 witness: the timer resolved the call of a child that wrote nothing,
\* is alive and has emitted no close, exit or error
C28_Witness ==
  /\ promise.value # None
  /\ settledBy.event = "timeout"
  /\ exChild.phase = "alive" /\ ~exChild.errored
  /\ stdout = <<>> /\ stderr = <<>>
  /\ timeoutHandle = "fired"

\* C29: shouldAutoDetectBackground gives a name the result it gives the
\* lower-cased name; DEV is detected as dev is, Dev-Cleanup and BUILD are
\* not, as dev-cleanup and build are not.
C29_CaseInsensitive ==
  script.called =>
    /\ script.detected = ShouldAutoDetectBackground(LowerName)
    /\ script.scriptName = <<"D", "E", "V">> => script.detected /\ ShouldAutoDetectBackground(<<"d", "e", "v">>)
    /\ script.scriptName = <<"D", "e", "v", "-", "C", "l", "e", "a", "n", "u", "p">>
         => ~script.detected /\ ~ShouldAutoDetectBackground(<<"d", "e", "v", "-", "c", "l", "e", "a", "n", "u", "p">>)
    /\ script.scriptName = <<"B", "U", "I", "L", "D">> => ~script.detected /\ ~ShouldAutoDetectBackground(<<"b", "u", "i", "l", "d">>)

\* C29 witness: a name with capital letters that is detected and runs in
\* the background
C29_Witness ==
  /\ script.called /\ script.scriptName # LowerName
  /\ script.detected /\ script.route = "background"

\* the indicator is joined to an exclusion keyword by - _ or :, in either order
JoinedToExclusion(ind) ==
  \E e \in ExclusionWords, sep \in Separators :
    Includes(LowerName, ind \o sep \o e) \/ Includes(LowerName, e \o sep \o ind)

C31_ForegroundByDefault ==
  script.called
    /\ ~Includes(LowerName, <<"d", "e", "v">>)
    /\ ~Includes(LowerName, <<"s", "t", "a", "r", "t">>)
    /\ ~Includes(LowerName, <<"s", "e", "r", "v", "e">>)
    /\ ~Includes(LowerName, <<"w", "a", "t", "c", "h">>)
    => ~script.detected /\ script.route # "background"

\* C31 witness: a name with no indicator that no prefix rule excludes, such
\* as preview or appinit, run in the foreground
C31_Witness ==
  /\ script.called /\ ~script.detected /\ script.route = "foreground"
  /\ ~PrefixRuleApplies
  /\ \A ind \in IndicatorWords : ~Includes(LowerName, ind)

\* C32: when a call of executeCommand is resolved by the exit or close of
\* its child, the result holds all that the child wrote before its streams
\* closed, the chunks that came between the exit event and the close event
\* included.
C32_ResultHoldsAllOutput ==
  exChild.phase = "closed" /\ settledBy.event \in {"exit", "close"}
    => /\ promise.value.stdout = Trim(stdout)
       /\ promise.value.stderr = Trim(stderr)

\* C33: executeBackgroundCommand puts the task in the registry, running and
\* with an empty buffer, in the call that spawns the child: no event of the
\* child has been handled by then, and a child that can emit an event always
\* has its task registered.
C33_RegisteredBeforeEvents ==
  /\ [](\A t \in TaskIds : child[t].phase # "none" => t \in Registered)
  /\ [][\A t \in TaskIds :
          t \notin Registered /\ t \in DOMAIN backgroundTasks'
            => /\ child[t].phase = "none"
               /\ child'[t].phase = "spawning"
               /\ backgroundTasks'[t].status = "running"
               /\ backgroundTasks'[t].output = <<>>
               /\ arrived'[t] = <<>>
               /\ startup'[t] = NoStartup]_vars
  /\ [][\A t \in TaskIds :
          child'[t] # child[t] /\ child[t].phase # "none" => t \in Registered]_vars

\* C33 witness: a task in the registry, running and with an empty buffer,
\* whose child has not emitted its first event
C33_Witness ==
  \E t \in Registered :
    /\ child[t].phase = "spawning"
    /\ Status(t) = "running"
    /\ Output(t) = <<>>
    /\ startup[t] = NoStartup

\* the lines a data event adds to those that arrived
ArrivalOf(ev) ==
  [i \in 1..Len(LinesOf[DataText(ev[1], ev[2])]) |->
     [stream |-> ev[1], line |-> LinesOf[DataText(ev[1], ev[2])][i]]]

\* C34: the initial output of a start is set once, to the first chunk that
\* arrives on stdout or stderr, and later chunks leave it; the summary of
\* the acknowledgment holds that chunk exactly when it came before the timer
\* fired.
C34_InitialOutputIsFirstChunk ==
  /\ [](\A t \in Registered : startup[t].hasOutput <=> arrived[t] # <<>>)
  /\ [](\A t \in Registered : ~startup[t].hasOutput => startup[t].initialOutput = <<>>)
  /\ [][\A t \in Registered :
          arrived[t] = <<>> /\ arrived'[t] # <<>>
            => \E ev \in DataEvents :
                 /\ arrived'[t] = ArrivalOf(ev)
                 /\ startup'[t].initialOutput = ev[2]]_vars
  /\ [][\A t \in Registered :
          startup[t].hasOutput
            => startup'[t].initialOutput = startup[t].initialOutput]_vars
  /\ [][\A t \in Registered :
          startup[t].ack = "armed" /\ startup'[t].ack = "fired"
            => LET summary == startup'[t].promise.value.stdout IN
               IF startup[t].hasOutput
               THEN Includes(summary, startup[t].initialOutput)
               ELSE \A ev \in DataEvents : ~Includes(summary, ev[2])]_vars
  /\ [][\A t \in Registered :
          startup[t].ack = "fired" => startup'[t].promise = startup[t].promise]_vars

\* C34 witness: the first chunk came on stderr before the timer fired and is
\* in the summary, and a chunk on stdout has come since
C34_Witness ==
  \E t \in Registered :
    /\ startup[t].ack = "fired"
    /\ startup[t].initialOutput = ShortChunk
    /\ arrived[t][1].stream = "stderr"
    /\ \E i \in 1..Len(arrived[t]) : arrived[t][i].stream = "stdout"
    /\ Includes(StartPromise(t).value.stdout, ShortChunk)
    /\ ~Includes(StartPromise(t).value.stdout, FullChunk)

\* C35: the acknowledgment does not look at the status: when the child
\* exits with a code other than 0 after the spawn and before the timer
\* fires, and no error event comes, the start still resolves with success
\* while the registry shows the task as failed.
C35_AckIgnoresStatus ==
  [][\A t \in Registered :
       startup[t].ack = "armed" /\ startup'[t].ack = "fired"
         /\ StartPromise(t).value = None
         => /\ startup'[t].promise.value # None
            /\ startup'[t].promise.value.success = TRUE
            /\ backgroundTasks'[t].status = Status(t)
            /\ Status(t) \in {"running", "stopped", "failed"}]_vars

\* C35 witness: the child exited with a code other than 0 before the timer
\* fired, no error event came, the task is failed and the start succeeded
C35_Witness ==
  \E t \in Registered :
    /\ startup[t].ack = "fired"
    /\ child[t].phase = "exited" /\ ~child[t].errored
    /\ Status(t) = "failed"
    /\ sent[t] = <<>>
    /\ StartPromise(t).calls = 1
    /\ StartPromise(t).value.success = TRUE

\* the step is an exit event or an error event of the task, or a stop of it
\* whose kill did not throw
EndsRunning(t) ==
  \/ child[t].phase # "exited" /\ child'[t].phase = "exited"
  \/ ~child[t].errored /\ child'[t].errored
  \/ response'.op = "stop" /\ response'.kind = "Stopped" /\ response'.taskId = t

\* C36: a task is running exactly as long as none of an exit event, an
\* error event and a stop whose kill did not throw has happened to it: it
\* is registered as running, each of the three ends that, nothing else
\* does, and no task becomes running again.
C36_RunningUntilEnded ==
  /\ [][\A t \in TaskIds :
          t \notin Registered /\ t \in DOMAIN backgroundTasks'
            => backgroundTasks'[t].status = "running"]_vars
  /\ [][\A t \in Registered :
          Status(t) = "running"
            => (backgroundTasks'[t].status # "running" <=> EndsRunning(t))]_vars
  /\ [][\A t \in Registered :
          Status(t) # "running"
            => backgroundTasks'[t].status # "running"]_vars
  /\ [](\A t \in Registered :
          child[t].phase \in {"exited", "failed"} \/ child[t].errored
            => Status(t) # "running")

\* C36 witness: a task still running after a stop whose kill threw, beside
\* a task that an error event has ended
C36_Witness ==
  \E t \in Registered, u \in Registered :
    /\ response.kind = "StopFailed" /\ response.taskId = t
    /\ Status(t) = "running"
    /\ child[t].phase = "alive" /\ ~child[t].errored
    /\ child[u].phase = "alive" /\ child[u].errored
    /\ Status(u) = "failed"

\* the step is a run of cleanup
CleanupRuns == budget'.cleanups < budget.cleanups

\* C37: cleanup leaves every status as it is, so a task that is running
\* stays running and each further run of cleanup before its exit sends it
\* one more SIGTERM and appends one more shutdown notice: after k runs whose
\* kill returned, k signals and k notices.
C37_CleanupKeepsStatus ==
  /\ [][CleanupRuns =>
          \A t \in Registered : backgroundTasks'[t].status = Status(t)]_vars
  /\ [][CleanupRuns =>
          \A t \in Registered :
            Status(t) = "running" =>
              \/ /\ sent'[t] = Append(sent[t], "SIGTERM")
                 /\ backgroundTasks'[t].output = Append(Output(t), ShutdownLine)
              \/ /\ sent'[t] = sent[t]
                 /\ backgroundTasks'[t].output = Output(t)]_vars
  /\ [](\A t \in Registered :
          Status(t) = "running" =>
            /\ Len(sent[t]) = Len(Output(t))
            /\ Len(sent[t]) <= MaxShutdown - budget.cleanups
            /\ \A i \in 1..Len(sent[t]) :
                 sent[t][i] = "SIGTERM" /\ Output(t)[i] = ShutdownLine)

\* C37 witness: cleanup ran twice while the child was alive; the task is
\* running and has two signals and two notices
C37_Witness ==
  \E t \in Registered :
    /\ budget.cleanups = MaxShutdown - 2
    /\ Status(t) = "running"
    /\ child[t].phase = "alive"
    /\ sent[t] = <<"SIGTERM", "SIGTERM">>
    /\ Output(t) = <<ShutdownLine, ShutdownLine>>

\* C38: when the kill of a running task throws in a run of cleanup, that
\* task gets no notice and every other running task is still sent SIGTERM
\* and given its notice.
C38_CleanupGoesOnAfterThrow ==
  [][CleanupRuns =>
       \A t \in Registered :
         Status(t) = "running" /\ sent'[t] = sent[t] =>
           /\ backgroundTasks'[t] = backgroundTasks[t]
           /\ child'[t] = child[t]
           /\ \A u \in Registered \ {t} :
                Status(u) = "running" =>
                  /\ sent'[u] = Append(sent[u], "SIGTERM")
                  /\ backgroundTasks'[u].output = Append(Output(u), ShutdownLine)]_vars

\* C38 witness: after one run of cleanup in which the kill of the first
\* task threw, that task has no signal and no notice and the task after it
\* has both
C38_Witness ==
  /\ budget.cleanups = MaxShutdown - 1
  /\ Cardinality(Registered) = 2
  /\ Status(TaskOrder[1]) = "running" /\ Status(TaskOrder[2]) = "running"
  /\ sent[TaskOrder[1]] = <<>> /\ Output(TaskOrder[1]) = <<>>
  /\ ~child[TaskOrder[1]].killed
  /\ sent[TaskOrder[2]] = <<"SIGTERM">> /\ Output(TaskOrder[2]) = <<ShutdownLine>>

\* C39: once a close, exit or error event has resolved a call of
\* executeCommand, its timeout timer is cancelled and stays so, the timer of
\* the forced kill is never set, and the executor has sent and sends the
\* child no signal.
C39_NoSignalAfterEvent ==
  /\ [](settledBy.event \in {"close", "exit", "error"} =>
          /\ timeoutHandle = "cleared"
          /\ killTimer = "none"
          /\ exSent = <<>>
          /\ ~exChild.killed)
  /\ [][settledBy.event \in {"close", "exit", "error"} =>
          /\ settledBy' = settledBy
          /\ exSent' = exSent
          /\ timeoutHandle' = timeoutHandle]_vars

\* C39 witness: an error event resolved the call while the child was alive;
\* the child is still alive, the timer is cancelled and no signal was sent
C39_Witness ==
  /\ settledBy.event = "error"
  /\ exChild.phase = "alive"
  /\ stdout # <<>>
  /\ timeoutHandle = "cleared"
  /\ killTimer = "none"
  /\ exSent = <<>>

\* the step is an event of the task or an operation on it
Concerns(t) ==
  \/ child'[t] # child[t]
  \/ arrived'[t] # arrived[t]
  \/ escalation'[t] # escalation[t]
  \/ sent'[t] # sent[t]
  \/ response'.taskId = t

\* C40: with several tasks registered, a data, exit or error event, a stop,
\* an escalation timer or a read that concerns one task leaves the status
\* and the output of every other task as they were, and no step changes the
\* id, the command, args and cwd, or the start time of a task.
C40_OtherTasksUntouched ==
  /\ [][\A t \in Registered :
          Concerns(t) =>
            \A u \in Registered \ {t} :
              /\ backgroundTasks'[u].status = Status(u)
              /\ backgroundTasks'[u].output = Output(u)]_vars
  /\ [][\A t \in Registered :
          backgroundTasks'[t] # backgroundTasks[t] => Concerns(t)]_vars
  /\ [][\A t \in Registered :
          /\ backgroundTasks'[t].id = backgroundTasks[t].id
          /\ backgroundTasks'[t].command = backgroundTasks[t].command
          /\ backgroundTasks'[t].startTime = backgroundTasks[t].startTime]_vars
  /\ [](\A t \in Registered : backgroundTasks[t].id = t)

\* C40 witness: one task wrote and then failed with a code other than 0,
\* the other, stopped gracefully, holds only the record of its stop
C40_Witness ==
  \E t \in Registered, u \in Registered :
    /\ t # u
    /\ arrived[t] # <<>>
    /\ child[t].phase = "exited" /\ Status(t) = "failed"
    /\ Len(Output(t)) > 1
    /\ Status(u) = "stopped"
    /\ child[u].phase = "alive"
    /\ Output(u) = <<StopLine("SIGTERM")>>
    /\ escalation[u] = "armed"

====
